---- MODULE Spec2Model ----
(***************************************************************************)
(* Window-layout engine of the EDB debugger front end.                     *)
(*                                                                         *)
(* ScreenManager (crates/debug-frontend/src/window/screen.rs) owns a map   *)
(* of named PaneManager profiles, the active profile name, the full-screen *)
(* flag and the pending mouse position.  PaneManager (window/pane.rs) owns *)
(* one pane tree and its focus pointer; its operations are modelled from   *)
(* the design document, section 4.2.                                       *)
(***************************************************************************)
EXTENDS Integers, Sequences, FiniteSets, TLC

\* ------------------------------------------------------------------ bounds
MaxLeaves == 2          \* a split is only taken while the tree has fewer leaves
MaxId == 2              \* a split is only taken while next_id is at most this
MaxCoord == 1           \* mouse coordinates range over 0..MaxCoord
MaxArea == 3            \* render areas range over extents 0..MaxArea
MaxRatio == 2           \* ratio pairs of the round-trip law range over 1..MaxRatio

\* --------------------------------------------------------------- constants
SMALL_SCREEN_STR == "Defualt (Small)"
LARGE_SCREEN_STR == "Defualt (Large)"

Terminal == "Terminal"
ViewTags == {"Terminal", "Source"}
Directions == {"Horizontal", "Vertical"}
Ratios == {<<1, 1>>, <<1, 2>>}
MoveDirs == {"left", "right", "up", "down"}

\* Option<Point>
None == <<>>
Some(v) == <<v>>
Point(x, y) == [x |-> x, y |-> y]

Rect(x, y, w, h) == [x |-> x, y |-> y, width |-> w, height |-> h]
DefaultViewport == Rect(0, 0, 80, 24)

\* ------------------------------------------------------------ the pane tree
Leaf(id, view) == [kind |-> "leaf", id |-> id, view |-> view]
SplitNode(dir, ratio, a, b) ==
    [kind |-> "split", direction |-> dir, ratio |-> ratio, first |-> a, second |-> b]

IsLeaf(t) == t.kind = "leaf"

RECURSIVE Leaves(_)
\* the leaves in depth-first order, first child before second
Leaves(t) == IF IsLeaf(t) THEN <<t>> ELSE Leaves(t.first) \o Leaves(t.second)

LeafIds(t) == {Leaves(t)[i].id : i \in DOMAIN Leaves(t)}
LeafCount(t) == Len(Leaves(t))

ViewOf(t, id) ==
    LET ls == Leaves(t) IN ls[CHOOSE i \in DOMAIN ls : ls[i].id = id].view

RECURSIVE SetLeafView(_, _, _)
SetLeafView(t, id, view) ==
    IF IsLeaf(t)
    THEN IF t.id = id THEN Leaf(id, view) ELSE t
    ELSE SplitNode(t.direction, t.ratio,
                   SetLeafView(t.first, id, view), SetLeafView(t.second, id, view))

RECURSIVE SplitLeaf(_, _, _, _, _)
\* replace leaf `id` by a Split whose first child is the old leaf and whose
\* second child is a new leaf `new` showing the same view
SplitLeaf(t, id, dir, ratio, new) ==
    IF IsLeaf(t)
    THEN IF t.id = id THEN SplitNode(dir, ratio, t, Leaf(new, t.view)) ELSE t
    ELSE SplitNode(t.direction, t.ratio,
                   SplitLeaf(t.first, id, dir, ratio, new),
                   SplitLeaf(t.second, id, dir, ratio, new))

\* the node is a Split whose two children are the leaves a and b
IsSplitOf(t, a, b) ==
    /\ ~IsLeaf(t)
    /\ IsLeaf(t.first)
    /\ IsLeaf(t.second)
    /\ {t.first.id, t.second.id} = {a, b}
    /\ a # b

RECURSIVE AreSiblings(_, _, _)
AreSiblings(t, a, b) ==
    IF IsLeaf(t) THEN FALSE
    ELSE \/ IsSplitOf(t, a, b)
         \/ AreSiblings(t.first, a, b)
         \/ AreSiblings(t.second, a, b)

RECURSIVE MergeLeaves(_, _, _)
\* replace the Split above the sibling leaves a, b by leaf a; b is discarded
MergeLeaves(t, a, b) ==
    IF IsLeaf(t) THEN t
    ELSE IF IsSplitOf(t, a, b)
         THEN (IF t.first.id = a THEN t.first ELSE t.second)
         ELSE SplitNode(t.direction, t.ratio,
                        MergeLeaves(t.first, a, b), MergeLeaves(t.second, a, b))

\* ---------------------------------------------------------------- geometry
\* SplitRect giving both children their rounded-down share
SplitRectTruncating(r, dir, ratio) ==
    IF dir = "Horizontal"
    THEN LET w1 == (r.width * ratio[1]) \div (ratio[1] + ratio[2])
             w2 == (r.width * ratio[2]) \div (ratio[1] + ratio[2])
         IN  <<Rect(r.x, r.y, w1, r.height), Rect(r.x + w1, r.y, w2, r.height)>>
    ELSE LET h1 == (r.height * ratio[1]) \div (ratio[1] + ratio[2])
             h2 == (r.height * ratio[2]) \div (ratio[1] + ratio[2])
         IN  <<Rect(r.x, r.y, r.width, h1), Rect(r.x, r.y + h1, r.width, h2)>>

\* divide along the direction in proportion to the ratio; the remainder of
\* the integer division goes to the second child
SplitRect(r, dir, ratio) ==
    IF dir = "Horizontal"
    THEN LET w1 == (r.width * ratio[1]) \div (ratio[1] + ratio[2])
         IN  <<Rect(r.x, r.y, w1, r.height),
               Rect(r.x + w1, r.y, r.width - w1, r.height)>>
    ELSE LET h1 == (r.height * ratio[1]) \div (ratio[1] + ratio[2])
         IN  <<Rect(r.x, r.y, r.width, h1),
               Rect(r.x, r.y + h1, r.width, r.height - h1)>>

PaneFlattened(id, view, rect, focused) ==
    [id |-> id, view |-> view, rect |-> rect, focused |-> focused]

RECURSIVE Flatten(_, _, _)
Flatten(t, area, focused) ==
    IF IsLeaf(t)
    THEN <<PaneFlattened(t.id, t.view, area, t.id = focused)>>
    ELSE LET rs == SplitRect(area, t.direction, t.ratio)
         IN  Flatten(t.first, rs[1], focused) \o Flatten(t.second, rs[2], focused)

\* ------------------------------------------------------------- PaneManager
PaneManager(tree, focused, next_id) ==
    [tree |-> tree, focused |-> focused, next_id |-> next_id,
     viewport |-> DefaultViewport]

\* preset factories
default_small_screen == PaneManager(Leaf(0, Terminal), 0, 1)
default_large_screen ==
    PaneManager(SplitNode("Horizontal", <<1, 2>>,
                          Leaf(0, "Source"),
                          SplitNode("Vertical", <<1, 1>>,
                                    Leaf(1, "Source"), Leaf(2, Terminal))),
                0, 3)

Outcome(pm, res) == [pm |-> pm, res |-> res]

HasFocus(pm) == pm.focused \in LeafIds(pm.tree)

\* split numbering the new leaf by the count of leaves in the tree
splitCountingLeaves(pm, id, dir, ratio) ==
    IF id \notin LeafIds(pm.tree)
    THEN [pm |-> pm, res |-> "NotFound", id |-> None]
    ELSE [pm |-> [pm EXCEPT !.tree = SplitLeaf(pm.tree, id, dir, ratio,
                                               LeafCount(pm.tree)),
                            !.next_id = pm.next_id + 1],
          res |-> "Ok",
          id |-> Some(LeafCount(pm.tree))]

\* PaneManager::split; the new leaf takes the next identifier
split(pm, id, dir, ratio) ==
    IF id \notin LeafIds(pm.tree)
    THEN [pm |-> pm, res |-> "NotFound", id |-> None]
    ELSE [pm |-> [pm EXCEPT !.tree = SplitLeaf(pm.tree, id, dir, ratio, pm.next_id),
                            !.next_id = pm.next_id + 1],
          res |-> "Ok",
          id |-> Some(pm.next_id)]

\* merge leaving the focus pointer on the discarded leaf
mergeKeepingFocus(pm, a, b) ==
    IF a \notin LeafIds(pm.tree) \/ b \notin LeafIds(pm.tree)
    THEN Outcome(pm, "NotFound")
    ELSE IF ~AreSiblings(pm.tree, a, b)
    THEN Outcome(pm, "InvalidMerge")
    ELSE Outcome([pm EXCEPT !.tree = MergeLeaves(pm.tree, a, b)], "Ok")

\* merge moving the focus to its first argument before it validates the pair
mergeFocusingFirst(pm, a, b) ==
    IF a \notin LeafIds(pm.tree) \/ b \notin LeafIds(pm.tree)
    THEN Outcome(pm, "NotFound")
    ELSE IF ~AreSiblings(pm.tree, a, b)
    THEN Outcome([pm EXCEPT !.focused = a], "InvalidMerge")
    ELSE Outcome([pm EXCEPT !.tree = MergeLeaves(pm.tree, a, b), !.focused = a], "Ok")

\* PaneManager::merge; focus follows the surviving leaf when it sat on b
merge(pm, a, b) ==
    IF a \notin LeafIds(pm.tree) \/ b \notin LeafIds(pm.tree)
    THEN Outcome(pm, "NotFound")
    ELSE IF ~AreSiblings(pm.tree, a, b)
    THEN Outcome(pm, "InvalidMerge")
    ELSE Outcome([pm EXCEPT !.tree = MergeLeaves(pm.tree, a, b),
                            !.focused = IF pm.focused = b THEN a ELSE pm.focused],
                 "Ok")

\* twice the centre of a rectangle, so that it stays an integer
Center2(r) == <<2 * r.x + r.width, 2 * r.y + r.height>>

Dist2(c, d) == (c[1] - d[1]) * (c[1] - d[1]) + (c[2] - d[2]) * (c[2] - d[2])

\* centre c lies strictly in direction d of centre f
InDirection(d, c, f) ==
    CASE d = "left"  -> c[1] < f[1]
      [] d = "right" -> c[1] > f[1]
      [] d = "up"    -> c[2] < f[2]
      [] d = "down"  -> c[2] > f[2]

\* the candidate nearest to centre c, the first in traversal order on a tie
Nearest(flat, c, cands) ==
    CHOOSE j \in cands :
        \A k \in cands :
            \/ Dist2(Center2(flat[j].rect), c) < Dist2(Center2(flat[k].rect), c)
            \/ /\ Dist2(Center2(flat[j].rect), c) = Dist2(Center2(flat[k].rect), c)
               /\ j <= k

focus_pick(pm, flat, c, cands) ==
    IF cands = {}
    THEN Outcome(pm, "Ok")
    ELSE Outcome([pm EXCEPT !.focused = flat[Nearest(flat, c, cands)].id], "Ok")

\* the leaves whose centre lies strictly in direction d of centre c
Candidates(flat, d, c) ==
    {j \in DOMAIN flat : InDirection(d, Center2(flat[j].rect), c)}

focus_from(pm, d, flat, c) == focus_pick(pm, flat, c, Candidates(flat, d, c))

FocusedRect(pm, flat) ==
    flat[CHOOSE i \in DOMAIN flat : flat[i].id = pm.focused].rect

focus_in(pm, d, flat) == focus_from(pm, d, flat, Center2(FocusedRect(pm, flat)))

\* PaneManager::focus_left / focus_right / focus_up / focus_down
focus_move(pm, d) ==
    IF ~HasFocus(pm)
    THEN Outcome(pm, "NotFound")
    ELSE focus_in(pm, d, Flatten(pm.tree, pm.viewport, pm.focused))

\* PaneManager::force_goto
force_goto(pm, view) ==
    IF ~HasFocus(pm)
    THEN Outcome(pm, "NotFound")
    ELSE Outcome([pm EXCEPT !.tree = SetLeafView(pm.tree, pm.focused, view)], "Ok")

\* PaneManager::force_goto_by_view
force_goto_by_view(pm, view) ==
    LET ls == Leaves(pm.tree)
        hits == {i \in DOMAIN ls : ls[i].view = view}
        hit == CHOOSE i \in hits : \A k \in hits : i <= k
    IN  IF hits # {}
        THEN Outcome([pm EXCEPT !.focused = ls[hit].id], "Ok")
        ELSE force_goto(pm, view)

\* PaneManager::get_flattened_layout
pane_get_flattened_layout(pm, area) == Flatten(pm.tree, area, pm.focused)

\* ----------------------------------------------------------- ScreenManager
\* focus_mode and terminal_mode are fields of the earlier ScreenManager
\* (crates/debug-frontend/src/screen.rs) only; full_screen and
\* pending_mouse_move are fields of the later one (window/screen.rs) only
VARIABLES panes, current_pane, full_screen, pending_mouse_move, last,
          focus_mode, terminal_mode

vars == <<panes, current_pane, full_screen, pending_mouse_move, last,
          focus_mode, terminal_mode>>

\* the value of a field the version of the struct does not have
NoField == "no such field"

\* the ScreenManager fields of the current state, as one value
ScreenManager ==
    [panes |-> panes, current_pane |-> current_pane,
     full_screen |-> full_screen, pending_mouse_move |-> pending_mouse_move]

Result(sm, res) == [sm |-> sm, res |-> res]

HasCurrent(sm) == sm.current_pane \in DOMAIN sm.panes
Cur(sm) == sm.panes[sm.current_pane]
SetCur(sm, pm) == [sm EXCEPT !.panes[sm.current_pane] = pm]

\* ScreenManager::new
new ==
    [panes |-> [n \in {SMALL_SCREEN_STR, LARGE_SCREEN_STR} |->
                   IF n = SMALL_SCREEN_STR THEN default_small_screen
                                           ELSE default_large_screen],
     current_pane |-> SMALL_SCREEN_STR,
     full_screen |-> FALSE,
     pending_mouse_move |-> None]

\* toggle_full_screen that only ever enters full-screen
toggleEntersOnly(sm) == Result([sm EXCEPT !.full_screen = TRUE], "Ok")

\* ScreenManager::toggle_full_screen
toggle_full_screen(sm) == Result([sm EXCEPT !.full_screen = ~sm.full_screen], "Ok")

\* set_mouse_move without the full-screen check
setMouseMoveAlways(sm, x, y) ==
    Result([sm EXCEPT !.pending_mouse_move = Some(Point(x, y))], "Ok")

\* set_mouse_move with the full-screen test inverted
setMouseMoveInverted(sm, x, y) ==
    IF ~sm.full_screen
    THEN Result(sm, "Ok")
    ELSE Result([sm EXCEPT !.pending_mouse_move = Some(Point(x, y))], "Ok")

\* ScreenManager::set_mouse_move
set_mouse_move(sm, x, y) ==
    IF sm.full_screen
    THEN Result(sm, "Ok")
    ELSE Result([sm EXCEPT !.pending_mouse_move = Some(Point(x, y))], "Ok")

\* enter_terminal without the full-screen check
enterTerminalAnyMode(sm) ==
    IF ~HasCurrent(sm) THEN Result(sm, "NoCurrentPane")
    ELSE LET o == force_goto_by_view(Cur(sm), Terminal)
         IN  Result(SetCur(sm, o.pm), o.res)

\* ScreenManager::enter_terminal
enter_terminal(sm) ==
    IF sm.full_screen THEN Result(sm, "InvalidState")
    ELSE IF ~HasCurrent(sm) THEN Result(sm, "NoCurrentPane")
    ELSE LET o == force_goto_by_view(Cur(sm), Terminal)
         IN  Result(SetCur(sm, o.pm), o.res)

\* ScreenManager::add_pane_manager
add_pane_manager(sm, name, manager) ==
    Result([sm EXCEPT !.panes = [n \in DOMAIN sm.panes \cup {name} |->
                                    IF n = name THEN manager ELSE sm.panes[n]]],
           "Ok")

\* set_pane without the test that the name is registered
setPaneUnchecked(sm, name) == Result([sm EXCEPT !.current_pane = name], "Ok")

\* ScreenManager::set_pane
set_pane(sm, name) ==
    IF name \in DOMAIN sm.panes
    THEN Result([sm EXCEPT !.current_pane = name], "Ok")
    ELSE Result(sm, "NoSuchPane")

\* ScreenManager::set_large_screen
set_large_screen(sm) == Result([sm EXCEPT !.current_pane = LARGE_SCREEN_STR], "Ok")

\* ScreenManager::set_small_screen
set_small_screen(sm) == Result([sm EXCEPT !.current_pane = SMALL_SCREEN_STR], "Ok")

\* get_current_pane_mut()?.focus_<d>()
focus_dir(sm, d) ==
    IF ~HasCurrent(sm) THEN Result(sm, "NoCurrentPane")
    ELSE LET o == focus_move(Cur(sm), d) IN Result(SetCur(sm, o.pm), o.res)

\* focus_up delegating to the opposite direction
focusUpGoingDown(sm) == focus_dir(sm, "down")

focus_up(sm) == focus_dir(sm, "up")
focus_down(sm) == focus_dir(sm, "down")
focus_left(sm) == focus_dir(sm, "left")
focus_right(sm) == focus_dir(sm, "right")

focus_to(sm, d) ==
    CASE d = "up"    -> focus_up(sm)
      [] d = "down"  -> focus_down(sm)
      [] d = "left"  -> focus_left(sm)
      [] d = "right" -> focus_right(sm)

\* ScreenManager::get_focused_pane resolves
HasFocusedPane(sm) == HasCurrent(sm) /\ HasFocus(Cur(sm))

\* split_focused_pane splitting the first leaf of the tree, not the focused one
splitFirstPane(sm, dir, ratio) ==
    IF ~HasCurrent(sm) THEN [sm |-> sm, res |-> "NoCurrentPane", id |-> None]
    ELSE LET o == split(Cur(sm), Leaves(Cur(sm).tree)[1].id, dir, ratio)
         IN  [sm |-> SetCur(sm, o.pm), res |-> o.res, id |-> o.id]

\* ScreenManager::split_focused_pane
split_focused_pane(sm, dir, ratio) ==
    IF ~HasCurrent(sm) THEN [sm |-> sm, res |-> "NoCurrentPane", id |-> None]
    ELSE IF ~HasFocus(Cur(sm)) THEN [sm |-> sm, res |-> "NotFound", id |-> None]
    ELSE LET o == split(Cur(sm), Cur(sm).focused, dir, ratio)
         IN  [sm |-> SetCur(sm, o.pm), res |-> o.res, id |-> o.id]

\* the body of close_focused_pane after the terminal check: a merge trial
\* after a navigation ("try"), or a navigation back followed by the check
\* that focus is on the original pane ("back")
CloseSteps ==
    << <<"try", "left">>,
       <<"back", "right">>, <<"try", "right">>,
       <<"back", "left">>,  <<"try", "up">>,
       <<"back", "down">>,  <<"try", "down">>,
       <<"back", "up">> >>

RECURSIVE closeWithoutLastError(_, _, _)
RECURSIVE close_after(_, _, _)
RECURSIVE close_try(_, _, _, _)

\* close_from returning Ok when all four trials failed
closeWithoutLastError(sm, ori_id, i) ==
    IF i > Len(CloseSteps)
    THEN Result(sm, "Ok")
    ELSE close_after(focus_to(sm, CloseSteps[i][2]), ori_id, i)

RECURSIVE close_from(_, _, _)
close_from(sm, ori_id, i) ==
    IF i > Len(CloseSteps)
    THEN Result(sm, "Unmergeable")
    ELSE close_after(focus_to(sm, CloseSteps[i][2]), ori_id, i)

\* close_after passing the neighbour first and the original pane second
closeAfterSwapped(f, ori_id, i) ==
    IF f.res # "Ok" THEN f
    ELSE IF ~HasFocusedPane(f.sm) THEN Result(f.sm, "NotFound")
    ELSE IF CloseSteps[i][1] = "try"
    THEN close_try(f.sm, merge(Cur(f.sm), Cur(f.sm).focused, ori_id), ori_id, i)
    ELSE IF Cur(f.sm).focused # ori_id
    THEN Result(f.sm, "CannotMoveBack")
    ELSE close_from(f.sm, ori_id, i + 1)

\* after the navigation of step i returned f
close_after(f, ori_id, i) ==
    IF f.res # "Ok" THEN f
    ELSE IF ~HasFocusedPane(f.sm) THEN Result(f.sm, "NotFound")
    ELSE IF CloseSteps[i][1] = "try"
    THEN close_try(f.sm, merge(Cur(f.sm), ori_id, Cur(f.sm).focused), ori_id, i)
    ELSE IF Cur(f.sm).focused # ori_id
    THEN Result(f.sm, "CannotMoveBack")
    ELSE close_from(f.sm, ori_id, i + 1)

\* after merge(ori_id, cur_id) of step i returned m
close_try(sm, m, ori_id, i) ==
    IF m.res = "Ok"
    THEN Result(SetCur(sm, m.pm), "Ok")
    ELSE close_from(sm, ori_id, i + 1)

\* close_focused_pane without the terminal check
closeAnyPane(sm) ==
    IF ~HasCurrent(sm) THEN Result(sm, "NoCurrentPane")
    ELSE IF ~HasFocus(Cur(sm)) THEN Result(sm, "NotFound")
    ELSE close_from(sm, Cur(sm).focused, 1)

\* ScreenManager::close_focused_pane
close_focused_pane(sm) ==
    IF ~HasCurrent(sm) THEN Result(sm, "NoCurrentPane")
    ELSE IF ~HasFocus(Cur(sm)) THEN Result(sm, "NotFound")
    ELSE IF ViewOf(Cur(sm).tree, Cur(sm).focused) = Terminal
    THEN Result(sm, "InvalidOperation")
    ELSE close_from(sm, Cur(sm).focused, 1)

\* get_flattened_layout whose full-screen entry is not marked focused
layoutUnmarkedFullScreen(sm, app) ==
    IF sm.full_screen
    THEN [res |-> "Ok",
          layout |-> <<PaneFlattened(Cur(sm).focused,
                                     ViewOf(Cur(sm).tree, Cur(sm).focused),
                                     app, FALSE)>>]
    ELSE [res |-> "Ok", layout |-> pane_get_flattened_layout(Cur(sm), app)]

\* get_flattened_layout whose full-screen entry is the first leaf of the tree
layoutFirstLeafFullScreen(sm, app) ==
    IF sm.full_screen
    THEN [res |-> "Ok",
          layout |-> <<PaneFlattened(Leaves(Cur(sm).tree)[1].id,
                                     Leaves(Cur(sm).tree)[1].view,
                                     app, TRUE)>>]
    ELSE [res |-> "Ok", layout |-> pane_get_flattened_layout(Cur(sm), app)]

\* ScreenManager::get_flattened_layout
get_flattened_layout(sm, app) ==
    IF sm.full_screen
    THEN IF ~HasFocusedPane(sm)
         THEN [res |-> "NotFound", layout |-> <<>>]
         ELSE [res |-> "Ok",
               layout |-> <<PaneFlattened(Cur(sm).focused,
                                          ViewOf(Cur(sm).tree, Cur(sm).focused),
                                          app, TRUE)>>]
    ELSE IF ~HasCurrent(sm)
         THEN [res |-> "NoCurrentPane", layout |-> <<>>]
         ELSE [res |-> "Ok", layout |-> pane_get_flattened_layout(Cur(sm), app)]

\* calls made on the active PaneManager through get_current_pane_mut
pane_split(sm, id, dir, ratio) ==
    IF ~HasCurrent(sm) THEN Result(sm, "NoCurrentPane")
    ELSE LET o == split(Cur(sm), id, dir, ratio) IN Result(SetCur(sm, o.pm), o.res)

pane_merge(sm, a, b) ==
    IF ~HasCurrent(sm) THEN Result(sm, "NoCurrentPane")
    ELSE LET o == merge(Cur(sm), a, b) IN Result(SetCur(sm, o.pm), o.res)

pane_force_goto(sm, view) ==
    IF ~HasCurrent(sm) THEN Result(sm, "NoCurrentPane")
    ELSE LET o == force_goto(Cur(sm), view) IN Result(SetCur(sm, o.pm), o.res)

pane_force_goto_by_view(sm, view) ==
    IF ~HasCurrent(sm) THEN Result(sm, "NoCurrentPane")
    ELSE LET o == force_goto_by_view(Cur(sm), view)
         IN  Result(SetCur(sm, o.pm), o.res)

\* ------------------------------------------------------------------ actions
Ids == 0..MaxId
Coords == 0..MaxCoord
ProfileNames == {SMALL_SCREEN_STR, LARGE_SCREEN_STR, "Custom", "Unregistered"}

\* the names and the managers handed to add_pane_manager: a new profile is
\* registered and an existing one is overwritten
AddedNames == {SMALL_SCREEN_STR, "Custom"}
AddedManagers == {default_small_screen}
Presets == {default_small_screen, default_large_screen}

\* a split that would grow the tree past the bounds of the model
CanGrow(pm) == LeafCount(pm.tree) < MaxLeaves /\ pm.next_id <= MaxId

\* `last` observes the most recent call and what it returned; a run started
\* with Untraced leaves it alone
Call(op) == [op |-> op, res |-> "Ok"]
Untraced == [op |-> "untraced", res |-> "untraced"]

\* the step made by a call that returned r
Apply(r, op) ==
    /\ panes' = r.sm.panes
    /\ current_pane' = r.sm.current_pane
    /\ full_screen' = r.sm.full_screen
    /\ pending_mouse_move' = r.sm.pending_mouse_move
    /\ last' = IF last = Untraced THEN Untraced ELSE [op |-> op, res |-> r.res]
    /\ UNCHANGED <<focus_mode, terminal_mode>>

Init ==
    /\ panes = new.panes
    /\ current_pane = new.current_pane
    /\ full_screen = new.full_screen
    /\ pending_mouse_move = new.pending_mouse_move
    /\ last = Call("new")
    /\ focus_mode = NoField
    /\ terminal_mode = NoField

ToggleFullScreen == Apply(toggle_full_screen(ScreenManager), "toggle_full_screen")

SetMouseMove == \E x \in Coords, y \in Coords :
    Apply(set_mouse_move(ScreenManager, x, y), "set_mouse_move")

EnterTerminal == Apply(enter_terminal(ScreenManager), "enter_terminal")

AddPaneManager == \E n \in AddedNames, m \in AddedManagers :
    Apply(add_pane_manager(ScreenManager, n, m), "add_pane_manager")

SetPane == \E n \in ProfileNames : Apply(set_pane(ScreenManager, n), "set_pane")

SetLargeScreen == Apply(set_large_screen(ScreenManager), "set_large_screen")

SetSmallScreen == Apply(set_small_screen(ScreenManager), "set_small_screen")

FocusUp == Apply(focus_up(ScreenManager), "focus_up")
FocusDown == Apply(focus_down(ScreenManager), "focus_down")
FocusLeft == Apply(focus_left(ScreenManager), "focus_left")
FocusRight == Apply(focus_right(ScreenManager), "focus_right")

SplitFocusedPane == \E d \in Directions, r \in Ratios :
    /\ HasCurrent(ScreenManager) => CanGrow(Cur(ScreenManager))
    /\ Apply(split_focused_pane(ScreenManager, d, r), "split_focused_pane")

CloseFocusedPane == Apply(close_focused_pane(ScreenManager), "close_focused_pane")

PaneSplit == \E id \in Ids, d \in Directions, r \in Ratios :
    /\ HasCurrent(ScreenManager) /\ id \in LeafIds(Cur(ScreenManager).tree)
          => CanGrow(Cur(ScreenManager))
    /\ Apply(pane_split(ScreenManager, id, d, r), "split")

PaneMerge == \E a \in Ids, b \in Ids :
    Apply(pane_merge(ScreenManager, a, b), "merge")

PaneForceGoto == \E v \in ViewTags :
    Apply(pane_force_goto(ScreenManager, v), "force_goto")

PaneForceGotoByView == \E v \in ViewTags :
    Apply(pane_force_goto_by_view(ScreenManager, v), "force_goto_by_view")

Next ==
    \/ ToggleFullScreen
    \/ SetMouseMove
    \/ EnterTerminal
    \/ SetPane
    \/ SetLargeScreen
    \/ SetSmallScreen
    \/ FocusUp
    \/ FocusDown
    \/ FocusLeft
    \/ FocusRight
    \/ SplitFocusedPane
    \/ CloseFocusedPane

Spec == Init /\ [][Next]_vars

\* the same program, with the observer switched off
InitQuiet ==
    /\ panes = new.panes
    /\ current_pane = new.current_pane
    /\ full_screen = new.full_screen
    /\ pending_mouse_move = new.pending_mouse_move
    /\ last = Untraced
    /\ focus_mode = NoField
    /\ terminal_mode = NoField

SpecQuiet == InitQuiet /\ [][Next]_vars

\* one profile at a time: the operations on the active PaneManager, started
\* from either preset
InitPane ==
    /\ panes = new.panes
    /\ current_pane \in DOMAIN new.panes
    /\ full_screen = new.full_screen
    /\ pending_mouse_move = new.pending_mouse_move
    /\ last = Call("new")
    /\ focus_mode = NoField
    /\ terminal_mode = NoField

NextPane ==
    \/ FocusUp
    \/ FocusDown
    \/ FocusLeft
    \/ FocusRight
    \/ SplitFocusedPane
    \/ CloseFocusedPane
    \/ PaneSplit
    \/ PaneMerge
    \/ PaneForceGoto
    \/ PaneForceGotoByView

SpecPane == InitPane /\ [][NextPane]_vars

\* the profile table: registration, activation, and the operations that
\* edit the active profile
NextProfiles ==
    \/ AddPaneManager
    \/ SetPane
    \/ SetLargeScreen
    \/ SetSmallScreen
    \/ FocusUp
    \/ FocusDown
    \/ FocusLeft
    \/ FocusRight
    \/ SplitFocusedPane
    \/ CloseFocusedPane
    \/ EnterTerminal

SpecProfiles == InitQuiet /\ [][NextProfiles]_vars

\* the operations on the active PaneManager together with the mode layer
NextMode ==
    \/ NextPane
    \/ ToggleFullScreen
    \/ EnterTerminal

SpecMode == InitPane /\ [][NextMode]_vars

InitPaneQuiet ==
    /\ panes = new.panes
    /\ current_pane \in DOMAIN new.panes
    /\ full_screen = new.full_screen
    /\ pending_mouse_move = new.pending_mouse_move
    /\ last = Untraced
    /\ focus_mode = NoField
    /\ terminal_mode = NoField

SpecPaneQuiet == InitPaneQuiet /\ [][NextPane]_vars

\* ------------------------------------- the earlier ScreenManager (screen.rs)
SMALL_SCREEN_STR_fm == "Defualt Small Screen"
LARGE_SCREEN_STR_fm == "Defualt Large Screen"

TerminalMode == {"Normal", "Insert"}
FocusMode == {"Entered", "Browse", "FullScreen"}

\* the fields of the earlier ScreenManager in the current state, as one value
ScreenManager_fm ==
    [panes |-> panes, current_pane |-> current_pane,
     terminal_mode |-> terminal_mode, focus_mode |-> focus_mode]

\* ScreenManager::new
new_fm ==
    [panes |-> [n \in {SMALL_SCREEN_STR_fm, LARGE_SCREEN_STR_fm} |->
                   IF n = SMALL_SCREEN_STR_fm THEN default_small_screen
                                              ELSE default_large_screen],
     current_pane |-> SMALL_SCREEN_STR_fm,
     terminal_mode |-> "Normal",
     focus_mode |-> "Entered"]

\* ScreenManager::toggle_full_screen
toggle_full_screen_fm(sm) ==
    IF sm.focus_mode = "FullScreen"
    THEN Result([sm EXCEPT !.focus_mode = "Entered"], "Ok")
    ELSE IF sm.focus_mode = "Entered"
    THEN Result([sm EXCEPT !.focus_mode = "FullScreen"], "Ok")
    ELSE Result(sm, "CannotToggleInBrowse")

\* ScreenManager::enter_pane
enter_pane(sm) == Result([sm EXCEPT !.focus_mode = "Entered"], "Ok")

\* ScreenManager::browse_pane
browse_pane(sm) == Result([sm EXCEPT !.focus_mode = "Browse"], "Ok")

\* after force_goto(PaneView::Terminal) returned o
entered_terminal(sm, o, mode) ==
    IF o.res # "Ok" THEN Result(sm, o.res)
    ELSE Result([SetCur(sm, o.pm) EXCEPT !.terminal_mode = mode,
                                         !.focus_mode = "Entered"], "Ok")

\* ScreenManager::enter_terminal
enter_terminal_fm(sm, mode) ==
    IF ~HasCurrent(sm) THEN Result(sm, "NoCurrentPane")
    ELSE entered_terminal(sm, force_goto(Cur(sm), Terminal), mode)

\* ScreenManager::set_large_screen
set_large_screen_fm(sm) ==
    Result([sm EXCEPT !.current_pane = LARGE_SCREEN_STR_fm], "Ok")

\* ScreenManager::set_small_screen
set_small_screen_fm(sm) ==
    Result([sm EXCEPT !.current_pane = SMALL_SCREEN_STR_fm], "Ok")

\* the step made by a call on the earlier ScreenManager that returned r
Apply_fm(r, op) ==
    /\ panes' = r.sm.panes
    /\ current_pane' = r.sm.current_pane
    /\ terminal_mode' = r.sm.terminal_mode
    /\ focus_mode' = r.sm.focus_mode
    /\ last' = [op |-> op, res |-> r.res]
    /\ UNCHANGED <<full_screen, pending_mouse_move>>

Init_fm ==
    /\ panes = new_fm.panes
    /\ current_pane = new_fm.current_pane
    /\ terminal_mode = new_fm.terminal_mode
    /\ focus_mode = new_fm.focus_mode
    /\ full_screen = NoField
    /\ pending_mouse_move = NoField
    /\ last = Call("new")

ToggleFullScreen_fm ==
    Apply_fm(toggle_full_screen_fm(ScreenManager_fm), "toggle_full_screen")

EnterPane == Apply_fm(enter_pane(ScreenManager_fm), "enter_pane")

BrowsePane == Apply_fm(browse_pane(ScreenManager_fm), "browse_pane")

EnterTerminal_fm == \E mode \in TerminalMode :
    Apply_fm(enter_terminal_fm(ScreenManager_fm, mode), "enter_terminal")

SetLargeScreen_fm ==
    Apply_fm(set_large_screen_fm(ScreenManager_fm), "set_large_screen")

SetSmallScreen_fm ==
    Apply_fm(set_small_screen_fm(ScreenManager_fm), "set_small_screen")

\* focus_up / focus_down / focus_left / focus_right
Focus_fm == \E d \in MoveDirs : Apply_fm(focus_dir(ScreenManager_fm, d), "focus")

Next_fm ==
    \/ ToggleFullScreen_fm
    \/ EnterPane
    \/ BrowsePane
    \/ EnterTerminal_fm
    \/ SetLargeScreen_fm
    \/ SetSmallScreen_fm
    \/ Focus_fm

Spec_fm == Init_fm /\ [][Next_fm]_vars

\* ---------------------------------------------------- vocabulary of claims
ActivePane == Cur(ScreenManager)
ActiveTree == ActivePane.tree
FocusedView == ViewOf(ActiveTree, ActivePane.focused)

AreaOrigins == {<<0, 0>>, <<1, 2>>}
Areas == {Rect(o[1], o[2], w, h) : o \in AreaOrigins, w \in 0..MaxArea, h \in 0..MaxArea}

SomeAreas == {DefaultViewport, Rect(1, 2, MaxArea, MaxArea), Rect(0, 0, 0, 0)}

CellsOf(r) == {<<cx, cy>> : cx \in r.x..(r.x + r.width - 1),
                            cy \in r.y..(r.y + r.height - 1)}

Inside(r, area) ==
    /\ area.x <= r.x /\ r.x + r.width <= area.x + area.width
    /\ area.y <= r.y /\ r.y + r.height <= area.y + area.height

\* every cell of the area lies in exactly one rectangle of the layout
Tiles(layout, area) ==
    /\ \A i \in DOMAIN layout : Inside(layout[i].rect, area)
    /\ \A c \in CellsOf(area) :
          Cardinality({i \in DOMAIN layout : c \in CellsOf(layout[i].rect)}) = 1

RECURSIVE SplitsExact(_, _)
\* at each Split the child extents along the axis sum to the parent's, the
\* first child is the rounded-down share and the other extent is the parent's
SplitsExact(t, r) ==
    \/ IsLeaf(t)
    \/ LET rs == SplitRect(r, t.direction, t.ratio)
           along(q) == IF t.direction = "Horizontal" THEN q.width ELSE q.height
           across(q) == IF t.direction = "Horizontal" THEN q.height ELSE q.width
           sum == t.ratio[1] + t.ratio[2]
       IN  /\ along(rs[1]) + along(rs[2]) = along(r)
           /\ along(rs[1]) * sum <= along(r) * t.ratio[1]
           /\ along(r) * t.ratio[1] < (along(rs[1]) + 1) * sum
           /\ across(rs[1]) = across(r) /\ across(rs[2]) = across(r)
           /\ SplitsExact(t.first, rs[1])
           /\ SplitsExact(t.second, rs[2])

\* the leaves a step removed from the active tree
Removed == LeafIds(ActiveTree) \ LeafIds(ActiveTree')

\* ------------------------------------------------------------------ claims

C2_TerminalNeverRemoved ==
    [][last'.op = "close_focused_pane"
          => \A id \in Removed : ViewOf(ActiveTree, id) # Terminal]_vars

\* C3: the flattened layout of the ScreenManager has exactly one focused
\* entry, and it is the focused leaf of the active profile, in both modes.
C3_OneFocusedEntry ==
    \A area \in SomeAreas :
        LET l == get_flattened_layout(ScreenManager, area)
            marked == {i \in DOMAIN l.layout : l.layout[i].focused}
        IN  /\ l.res = "Ok"
            /\ Cardinality(marked) = 1
            /\ \A i \in marked : l.layout[i].id = ActivePane.focused

C3_Witness ==
    /\ full_screen
    /\ LeafCount(ActiveTree) >= 2
    /\ ActivePane.focused # Leaves(ActiveTree)[1].id
    /\ C3_OneFocusedEntry

\* C4: the leaf rectangles of the active PaneManager tile every area exactly,
\* and every Split divides its rectangle exactly along its axis.
C4_FlattenTiles ==
    \A area \in Areas :
        /\ Tiles(pane_get_flattened_layout(ActivePane, area), area)
        /\ SplitsExact(ActiveTree, area)

\* a split of the small preset whose two leaves share an extent of 3 cells
\* as 1 and 2: the remainder went to the second child
C4_Witness ==
    /\ current_pane = SMALL_SCREEN_STR
    /\ LeafCount(ActiveTree) = 2
    /\ LET l == pane_get_flattened_layout(ActivePane, Rect(1, 2, 3, 3))
       IN  /\ l[1].rect = Rect(1, 2, 1, 3)
           /\ l[2].rect = Rect(2, 2, 2, 3)
    /\ C4_FlattenTiles

\* C5: a split of any leaf followed at once by merge(id, new_id) succeeds and
\* gives back the tree, the views, the focus and every flattened layout; so
\* does split_focused_pane followed by the merge of the focused leaf and the
\* identifier it returned.
RatioPairs == {<<p, q>> : p \in 1..MaxRatio, q \in 1..MaxRatio}

C5_SplitThenMergeRestores ==
    LET pm == ActivePane
        sm == ScreenManager
        restored == [pm EXCEPT !.next_id = pm.next_id + 1]
    IN  /\ pm.next_id \notin LeafIds(pm.tree)
        /\ \A id \in LeafIds(pm.tree), d \in Directions, r \in RatioPairs :
              LET s == split(pm, id, d, r)
                  m == merge(s.pm, id, pm.next_id)
              IN  /\ s.res = "Ok" /\ s.id = Some(pm.next_id)
                  /\ LeafCount(s.pm.tree) = LeafCount(pm.tree) + 1
                  /\ m.res = "Ok"
                  /\ m.pm.tree = pm.tree
                  /\ ViewOf(m.pm.tree, id) = ViewOf(pm.tree, id)
                  /\ m.pm.focused = pm.focused
                  /\ \A area \in SomeAreas : pane_get_flattened_layout(m.pm, area)
                                                = pane_get_flattened_layout(pm, area)
        /\ \A d \in Directions, r \in RatioPairs :
              LET s == split_focused_pane(sm, d, r)
                  m == pane_merge(s.sm, pm.focused, pm.next_id)
              IN  /\ s.res = "Ok" /\ s.id = Some(pm.next_id)
                  /\ m.res = "Ok"
                  /\ Cur(m.sm) = restored
                  /\ \A area \in SomeAreas : get_flattened_layout(m.sm, area)
                                                = get_flattened_layout(sm, area)

\* the newest leaf is still the sibling of the leaf it was split from, in a
\* tree of three leaves whose focus is not on the first
C5_Witness ==
    /\ LeafCount(ActiveTree) = 3
    /\ ActivePane.focused # Leaves(ActiveTree)[1].id
    /\ \E id \in LeafIds(ActiveTree) :
          LET m == merge(ActivePane, id, ActivePane.next_id - 1)
          IN  m.res = "Ok" /\ LeafCount(m.pm.tree) = 2
    /\ C5_SplitThenMergeRestores

\* C6: merge(a, b) succeeds exactly when a and b are the two leaf children of
\* one Split; otherwise it fails with InvalidMerge or NotFound and returns
\* the PaneManager (tree, views, focus) as it was.
RECURSIVE SplitNodes(_)
SplitNodes(t) ==
    IF IsLeaf(t) THEN {} ELSE {t} \cup SplitNodes(t.first) \cup SplitNodes(t.second)

SiblingLeaves(t, a, b) ==
    \E n \in SplitNodes(t) :
        /\ IsLeaf(n.first) /\ IsLeaf(n.second)
        /\ \/ n.first.id = a /\ n.second.id = b
           \/ n.first.id = b /\ n.second.id = a

C6_MergeOnlySiblings ==
    \A a \in Ids, b \in Ids :
        LET m == merge(ActivePane, a, b)
            known == a \in LeafIds(ActiveTree) /\ b \in LeafIds(ActiveTree)
        IN  /\ m.res = "Ok" <=> (known /\ SiblingLeaves(ActiveTree, a, b))
            /\ m.res = "Ok" => /\ LeafIds(m.pm.tree) = LeafIds(ActiveTree) \ {b}
                               /\ LeafCount(m.pm.tree) = LeafCount(ActiveTree) - 1
            /\ m.res # "Ok" => /\ m.pm = ActivePane
                               /\ m.res = IF known THEN "InvalidMerge" ELSE "NotFound"

\* the rectangles share a stretch of border
Touching(p, q) ==
    \/ /\ p.x + p.width = q.x \/ q.x + q.width = p.x
       /\ p.y < q.y + q.height /\ q.y < p.y + p.height
    \/ /\ p.y + p.height = q.y \/ q.y + q.height = p.y
       /\ p.x < q.x + q.width /\ q.x < p.x + p.width

\* after navigation and a change of view: a tree that holds a sibling pair
\* whose merge succeeds, a leaf paired with itself, and two adjacent leaves which are not
\* siblings (the sibling of one is a Split), so that their merge fails
C6_Witness ==
    /\ ActivePane.focused # Leaves(ActiveTree)[1].id
    /\ \A i \in DOMAIN Leaves(ActiveTree) : Leaves(ActiveTree)[i].view = Terminal
    /\ \E a \in Ids, b \in Ids : merge(ActivePane, a, b).res = "Ok"
    /\ merge(ActivePane, ActivePane.focused, ActivePane.focused).res = "InvalidMerge"
    /\ LET flat == pane_get_flattened_layout(ActivePane, ActivePane.viewport)
       IN  \E i \in DOMAIN flat, j \in DOMAIN flat :
              /\ i # j
              /\ Touching(flat[i].rect, flat[j].rect)
              /\ ~SiblingLeaves(ActiveTree, flat[i].id, flat[j].id)
              /\ merge(ActivePane, flat[i].id, flat[j].id).res = "InvalidMerge"
    /\ C6_MergeOnlySiblings

\* C7: close_focused_pane called while the focused leaf displays the terminal
\* view fails with InvalidOperation and changes no field of the ScreenManager.
C7_CloseTerminalRefused ==
    [][last'.op = "close_focused_pane" /\ FocusedView = Terminal
          => /\ last'.res = "InvalidOperation"
             /\ UNCHANGED <<panes, current_pane, full_screen, pending_mouse_move>>]_vars

C7_Witness ==
    /\ last.op = "close_focused_pane" /\ last.res = "InvalidOperation"
    /\ FocusedView = Terminal
    /\ LeafCount(ActiveTree) >= 2

\* C8: close_focused_pane on a tree of one leaf that is not the terminal
\* fails with Unmergeable: every navigation is a no-op, merge(origin, origin)
\* fails, and nothing changes.
C8_CloseLastPaneUnmergeable ==
    [][(last'.op = "close_focused_pane" /\ LeafCount(ActiveTree) = 1
                                         /\ FocusedView # Terminal)
          => /\ last'.res = "Unmergeable"
             /\ UNCHANGED <<panes, current_pane, full_screen, pending_mouse_move>>
             /\ \A d \in MoveDirs : focus_to(ScreenManager, d) = Result(ScreenManager, "Ok")
             /\ merge(ActivePane, ActivePane.focused, ActivePane.focused)
                   = Outcome(ActivePane, "InvalidMerge")]_vars

C8_Witness ==
    /\ last.op = "close_focused_pane" /\ last.res = "Unmergeable"
    /\ LeafCount(ActiveTree) = 1
    /\ FocusedView # Terminal

\* C9: a toggle_full_screen call changes full_screen and nothing else, and a
\* second call right after it gives back the ScreenManager and the flattened
\* layout of every area as they were before the first.
C9_ToggleInvolution ==
    [][last'.op = "toggle_full_screen"
          => /\ full_screen' = ~full_screen
             /\ UNCHANGED <<panes, current_pane, pending_mouse_move>>
             /\ LET again == toggle_full_screen(ScreenManager').sm
                IN  /\ again = ScreenManager
                    /\ \A area \in SomeAreas : get_flattened_layout(again, area)
                                                  = get_flattened_layout(ScreenManager, area)]_vars

C9_Witness ==
    /\ last.op = "toggle_full_screen"
    /\ ~full_screen
    /\ LeafCount(ActiveTree) >= 2
    /\ pending_mouse_move # None

\* C10: set_mouse_move(x, y) changes nothing while full_screen is true; while
\* it is false it sets the pending position to (x, y) and changes nothing else.
C10_MouseMoveFrame ==
    [][last'.op = "set_mouse_move"
          => \A x \in Coords, y \in Coords :
                Apply(set_mouse_move(ScreenManager, x, y), "set_mouse_move")
                   => IF full_screen
                      THEN UNCHANGED <<panes, current_pane, full_screen,
                                       pending_mouse_move>>
                      ELSE /\ pending_mouse_move' = Some(Point(x, y))
                           /\ UNCHANGED <<panes, current_pane, full_screen>>]_vars

\* a move arrived in full-screen while an earlier position was pending
C10_Witness ==
    /\ last.op = "set_mouse_move"
    /\ full_screen
    /\ pending_mouse_move # None

\* C11: whenever full_screen is true no pointer position is pending.
C11_PendingClearedInFullScreen == full_screen => pending_mouse_move = None

\* C11 as amended: the pending position never changes while full_screen is
\* true, nor on the step that enters or leaves full-screen; a position that
\* was pending when full-screen was entered stays pending.
C11_PendingKeptInFullScreen ==
    [][(full_screen \/ full_screen') => UNCHANGED pending_mouse_move]_vars

\* full-screen was just entered while a position was pending
C11_Witness ==
    /\ last.op = "toggle_full_screen"
    /\ full_screen
    /\ pending_mouse_move # None

\* the tree with every view blanked: its structure and identifiers
RECURSIVE Shape(_)
Shape(t) ==
    IF IsLeaf(t) THEN Leaf(t.id, "")
    ELSE SplitNode(t.direction, t.ratio, Shape(t.first), Shape(t.second))

\* C12: enter_terminal fails with InvalidState in full-screen and changes
\* nothing; otherwise it succeeds, the focused leaf of the active profile then
\* displays the terminal, the tree keeps its structure and leaf count, and no
\* view changes if some leaf displayed the terminal before the call.
C12_EnterTerminal ==
    [][last'.op = "enter_terminal"
          => IF full_screen
             THEN /\ last'.res = "InvalidState"
                  /\ UNCHANGED <<panes, current_pane, full_screen, pending_mouse_move>>
             ELSE /\ last'.res = "Ok"
                  /\ ViewOf(ActiveTree', ActivePane'.focused) = Terminal
                  /\ LeafCount(ActiveTree') = LeafCount(ActiveTree)
                  /\ Shape(ActiveTree') = Shape(ActiveTree)
                  /\ (\E i \in DOMAIN Leaves(ActiveTree) :
                          Leaves(ActiveTree)[i].view = Terminal)
                        => ActiveTree' = ActiveTree
                  /\ UNCHANGED <<current_pane, full_screen, pending_mouse_move>>]_vars

\* enter_terminal has just succeeded in a tree of several leaves of which
\* only the focused one, not the first, displays the terminal
C12_Witness ==
    /\ last.op = "enter_terminal" /\ last.res = "Ok"
    /\ LeafCount(ActiveTree) >= 2
    /\ FocusedView = Terminal
    /\ ActivePane.focused # Leaves(ActiveTree)[1].id
    /\ \A i \in DOMAIN Leaves(ActiveTree) :
          Leaves(ActiveTree)[i].view = Terminal
             => Leaves(ActiveTree)[i].id = ActivePane.focused

\* C13: in full-screen the layout of the ScreenManager is the single entry
\* of the focused leaf of the active profile (its id and view), marked
\* focused and covering the whole area, whatever the shape of the tree;
\* otherwise it is the layout of the active PaneManager.  The call returns
\* a value only: it takes the ScreenManager by shared reference.
C13_FullScreenLayout ==
    \A area \in Areas :
        LET l == get_flattened_layout(ScreenManager, area)
            ls == Leaves(ActiveTree)
            f == CHOOSE i \in DOMAIN ls : ls[i].id = ActivePane.focused
        IN  /\ l.res = "Ok"
            /\ full_screen =>
                  /\ Len(l.layout) = 1
                  /\ l.layout[1].rect = area
                  /\ l.layout[1].id = ls[f].id
                  /\ l.layout[1].view = ls[f].view
                  /\ l.layout[1].focused
            /\ ~full_screen =>
                  l.layout = pane_get_flattened_layout(ActivePane, area)

\* full-screen over a tree of several leaves whose focused leaf is neither
\* the first leaf nor of the first leaf's view
C13_Witness ==
    /\ full_screen
    /\ LeafCount(ActiveTree) = 3
    /\ ActivePane.focused # Leaves(ActiveTree)[1].id
    /\ FocusedView # Leaves(ActiveTree)[1].view
    /\ C13_FullScreenLayout

\* the position of leaf id in the traversal of t
LeafIndex(t, id) == CHOOSE i \in DOMAIN Leaves(t) : Leaves(t)[i].id = id

\* C14: the live leaves of every PaneManager have pairwise distinct ids; a
\* split of an existing leaf keeps that leaf, with its id and view, as the
\* first child, returns an id no live leaf has, and adds exactly one leaf; a
\* split of an unknown id fails with NotFound and returns the PaneManager
\* unchanged.
C14_DistinctPaneIds ==
    /\ \A n \in DOMAIN panes :
          Cardinality(LeafIds(panes[n].tree)) = LeafCount(panes[n].tree)
    /\ \A id \in 0..(MaxId + 2), d \in Directions, r \in Ratios :
          LET s == split(ActivePane, id, d, r)
              ls == Leaves(s.pm.tree)
          IN  IF id \in LeafIds(ActiveTree)
              THEN /\ s.res = "Ok"
                   /\ s.id # None
                   /\ s.id[1] \notin LeafIds(ActiveTree)
                   /\ LeafIds(s.pm.tree) = LeafIds(ActiveTree) \cup {s.id[1]}
                   /\ Len(ls) = LeafCount(ActiveTree) + 1
                   /\ Cardinality(LeafIds(s.pm.tree)) = Len(ls)
                   /\ LET i == LeafIndex(ActiveTree, id)
                      IN  /\ ls[i] = Leaves(ActiveTree)[i]
                          /\ ls[i + 1] = Leaf(s.id[1], ViewOf(ActiveTree, id))
                   /\ SplitLeaf(Shape(ActiveTree), id, d, r, s.id[1]) = Shape(s.pm.tree)
                   /\ s.pm.focused = ActivePane.focused
              ELSE s = [pm |-> ActivePane, res |-> "NotFound", id |-> None]

\* a tree grown by a split after a merge discarded leaf 0: the leaf an earlier
\* split created survives next to the newest one
C14_Witness ==
    /\ LeafCount(ActiveTree) = 2
    /\ 0 \notin LeafIds(ActiveTree)
    /\ ActivePane.next_id - 1 \in LeafIds(ActiveTree)
    /\ ActivePane.next_id = 3
    /\ current_pane = SMALL_SCREEN_STR
    /\ C14_DistinctPaneIds

\* C15: each of focus_up, focus_down, focus_left, focus_right succeeds and
\* changes at most the focus of the active profile; the focus stays exactly
\* when no leaf has its centre strictly in that direction of the focused
\* leaf's centre (always so in a tree of one leaf), and otherwise moves to
\* such a leaf at minimal distance.
C15_FocusNavigation ==
    \A d \in MoveDirs :
        LET r == focus_to(ScreenManager, d)
            flat == pane_get_flattened_layout(ActivePane, ActivePane.viewport)
            at(id) == Center2(flat[LeafIndex(ActiveTree, id)].rect)
            here == at(ActivePane.focused)
            ahead == {id \in LeafIds(ActiveTree) :
                        CASE d = "left"  -> at(id)[1] < here[1]
                          [] d = "right" -> at(id)[1] > here[1]
                          [] d = "up"    -> at(id)[2] < here[2]
                          [] d = "down"  -> at(id)[2] > here[2]}
            to == Cur(r.sm).focused
        IN  /\ r.res = "Ok"
            /\ r.sm = SetCur(ScreenManager, [ActivePane EXCEPT !.focused = to])
            /\ to = ActivePane.focused <=> ahead = {}
            /\ LeafCount(ActiveTree) = 1 => ahead = {}
            /\ ahead # {} =>
                  /\ to \in ahead
                  /\ \A id \in ahead : Dist2(at(to), here) <= Dist2(at(id), here)

\* the focus sits on the lower right leaf of a tree of three: two leaves
\* lie to the left at different distances, one lies above, none lies below
C15_Witness ==
    /\ LeafCount(ActiveTree) = 3
    /\ Cur(focus_left(ScreenManager).sm).focused # ActivePane.focused
    /\ Cur(focus_up(ScreenManager).sm).focused # ActivePane.focused
    /\ Cur(focus_up(ScreenManager).sm).focused # Cur(focus_left(ScreenManager).sm).focused
    /\ Cur(focus_down(ScreenManager).sm).focused = ActivePane.focused
    /\ Cur(focus_right(ScreenManager).sm).focused = ActivePane.focused
    /\ C15_FocusNavigation

\* C16: inside close_focused_pane every navigation back lands on the
\* original pane, so the call never fails with "cannot move back to the
\* original pane".
C16_ReturnLandsOnOrigin ==
    [][last'.op = "close_focused_pane" => last'.res # "CannotMoveBack"]_vars

\* C17: a close_focused_pane call that returns an error leaves the tree and
\* the views of the active profile as they were and its focus on the leaf
\* that was focused when the call started.
C17_CloseErrorRestores ==
    [][last'.op = "close_focused_pane" /\ last'.res # "Ok"
          => /\ ActiveTree' = ActiveTree
             /\ ActivePane'.focused = ActivePane.focused]_vars

\* the direct sibling of leaf id under their common Split is a leaf
SiblingIsLeaf(t, id) == \E b \in LeafIds(t) : SiblingLeaves(t, id, b)

\* C18: close_focused_pane succeeds and removes exactly one leaf whenever the
\* focused leaf does not display the terminal and its direct sibling is a
\* leaf, on whichever side the sibling lies.
C18_CloseSucceedsBesideLeaf ==
    [][(last'.op = "close_focused_pane" /\ FocusedView # Terminal
                                         /\ SiblingIsLeaf(ActiveTree, ActivePane.focused))
          => /\ last'.res = "Ok"
             /\ LeafCount(ActiveTree') = LeafCount(ActiveTree) - 1]_vars

\* the sequence s without its element at position k
Without(s, k) == [i \in 1..(Len(s) - 1) |-> IF i < k THEN s[i] ELSE s[i + 1]]

\* the directions in which one navigation from the focused leaf reaches a
\* leaf that merges with it
MergeableDirs ==
    {d \in MoveDirs :
        merge(ActivePane, ActivePane.focused, focus_move(ActivePane, d).pm.focused).res = "Ok"}

\* C19: a close_focused_pane call that succeeds removes the direct sibling
\* of the original pane and no other leaf; the original pane keeps its id and
\* view and takes the place of the Split, every other leaf is as it was, and
\* the focus is on the original pane.  In every tree at most one direction
\* leads from the focused leaf to a leaf it merges with.
C19_CloseRemovesSibling ==
    [][last'.op = "close_focused_pane"
          => /\ Cardinality(MergeableDirs) <= 1
             /\ last'.res = "Ok" =>
                  LET ori == ActivePane.focused
                  IN  \E b \in LeafIds(ActiveTree) :
                         /\ SiblingLeaves(ActiveTree, ori, b)
                         /\ Removed = {b}
                         /\ Leaves(ActiveTree')
                               = Without(Leaves(ActiveTree), LeafIndex(ActiveTree, b))
                         /\ ActiveTree' = MergeLeaves(ActiveTree, ori, b)
                         /\ ori \in LeafIds(ActiveTree')
                         /\ ViewOf(ActiveTree', ori) = ViewOf(ActiveTree, ori)
                         /\ ActivePane'.focused = ori
                         /\ UNCHANGED <<current_pane, full_screen, pending_mouse_move>>]_vars

\* a close has just merged away the first leaf of the small preset: the
\* single leaf left is the pane that was closed from, with the view it had
C19_Witness ==
    /\ last.op = "close_focused_pane" /\ last.res = "Ok"
    /\ current_pane = SMALL_SCREEN_STR
    /\ LeafCount(ActiveTree) = 1
    /\ 0 \notin LeafIds(ActiveTree)
    /\ FocusedView = "Source"

\* what the operations that edit or navigate the active profile return
EditResults ==
    {focus_to(ScreenManager, d) : d \in MoveDirs}
        \cup {Result(split_focused_pane(ScreenManager, d, r).sm,
                     split_focused_pane(ScreenManager, d, r).res) :
                 d \in Directions, r \in Ratios}
        \cup {close_focused_pane(ScreenManager), enter_terminal(ScreenManager)}

\* what the operations that switch the active profile return
SwitchResults ==
    {set_pane(ScreenManager, n) : n \in ProfileNames}
        \cup {set_small_screen(ScreenManager), set_large_screen(ScreenManager)}

\* C20: current_pane always names a registered profile; set_pane with an
\* unregistered name fails and changes nothing; the editing and navigating
\* operations change at most the PaneManager of the active profile; the
\* switching operations change at most current_pane, so that switching away
\* and back finds every profile as it was left; add_pane_manager writes the
\* one entry it names.
C20_ProfilesIsolated ==
    /\ current_pane \in DOMAIN panes
    /\ \A n \in ProfileNames \ DOMAIN panes :
          set_pane(ScreenManager, n).sm = ScreenManager
             /\ set_pane(ScreenManager, n).res # "Ok"
    /\ \A n \in DOMAIN panes :
          set_pane(ScreenManager, n) = Result([ScreenManager EXCEPT !.current_pane = n], "Ok")
    /\ \A r \in EditResults :
          /\ DOMAIN r.sm.panes = DOMAIN panes
          /\ \A n \in DOMAIN panes \ {current_pane} : r.sm.panes[n] = panes[n]
          /\ r.sm.current_pane = current_pane
          /\ r.sm.full_screen = full_screen
          /\ r.sm.pending_mouse_move = pending_mouse_move
    /\ \A r \in SwitchResults :
          /\ r.sm = [ScreenManager EXCEPT !.current_pane = r.sm.current_pane]
          /\ r.sm.current_pane \in DOMAIN panes
          /\ set_pane(r.sm, current_pane).sm = ScreenManager
    /\ \A n \in ProfileNames, m \in Presets :
          LET r == add_pane_manager(ScreenManager, n, m).sm
          IN  /\ DOMAIN r.panes = DOMAIN panes \cup {n}
              /\ r.panes[n] = m
              /\ \A k \in DOMAIN panes \ {n} : r.panes[k] = panes[k]
              /\ r.current_pane = current_pane

\* a registered third profile is active and has been edited, while the
\* small profile, edited before the switch, is still as it was left
C20_Witness ==
    /\ current_pane = "Custom"
    /\ panes["Custom"] \notin Presets
    /\ panes[SMALL_SCREEN_STR] \notin Presets
    /\ LeafCount(panes[SMALL_SCREEN_STR].tree) = 2
    /\ panes[LARGE_SCREEN_STR].focused # 0
    /\ C20_ProfilesIsolated

\* C21: the focus mode of the earlier ScreenManager follows the chain
\* Browse <-> Entered <-> FullScreen: no call takes it from Browse to
\* FullScreen or from FullScreen to Browse in one step, and
\* toggle_full_screen called in Browse fails and leaves it unchanged.
C21_FocusModeChain ==
    [][/\ ~(focus_mode = "Browse" /\ focus_mode' = "FullScreen")
       /\ ~(focus_mode = "FullScreen" /\ focus_mode' = "Browse")
       /\ (last'.op = "toggle_full_screen" /\ focus_mode = "Browse")
             => last'.res # "Ok" /\ focus_mode' = "Browse"]_vars

====
